---- MODULE Spec2Model ----
(***************************************************************************)
(* Model of app.py, the VisionDoc AI retrieval pipeline.                   *)
(*                                                                         *)
(* app.py is a Streamlit script: every user interaction re-executes the    *)
(* whole script from line 1 in a fresh namespace.  What survives a rerun   *)
(* is st.session_state (history) and the values of the widgets (keys,      *)
(* search mode, uploaded files, query text).  Everything else (raw_text,   *)
(* chunks, metadata, embeddings, retriever, ...) is a script variable that *)
(* lives for one run only.  An uncaught exception ends the run.            *)
(*                                                                         *)
(* Text is modelled as a sequence of words.  chunk_text, describe_image,   *)
(* get_jina_embeddings, FAISSRetriever, simple_rerank and ask_llm are      *)
(* imported from modules that are not part of app.py; they are modelled    *)
(* from their contracts in the specification.                              *)
(***************************************************************************)
EXTENDS Integers, Sequences, FiniteSets

VARIABLES
    session_state,  \* st.session_state: key -> value, kept across reruns
    groq_key,     \* sidebar text_input, line 96
    jina_key,     \* sidebar text_input, line 97
    model,        \* sidebar selectbox, line 99
    filter_type,  \* sidebar radio, line 104
    txt_file,     \* file_uploader, line 119 (None when nothing is uploaded)
    img_file,     \* file_uploader, line 125 (None when nothing is uploaded)
    query,        \* text_input, line 163
    trigger,      \* what caused the current run: "load", "upload", "widget", "button"
    ns,           \* the script namespace of the current run: name -> value
    pc,           \* position of the current run in the script
    prev          \* observation: whether the previous run was a failed query turn,
                  \* and the corpus it had built

vars == <<session_state, groq_key, jina_key, model, filter_type, txt_file, img_file,
          query, trigger, ns, pc, prev>>

----------------------------------------------------------------------------
(* Sizes *)

\* history is capped at this many entries
MaxHist == 2

\* top_k passed to retriever.search
TopK == 5

\* number of reranked chunks joined into the context
ContextCap == 3

\* words per chunk in the modelled segmenter
ChunkSize == 2

----------------------------------------------------------------------------
(* Values *)

None == <<>>            \* no upload
NoFilter == "None"      \* filter_type=None
Absent == <<>>          \* falsy result of describe_image

Min(a, b) == IF a < b THEN a ELSE b

\* the embedding space: one dimension per word
Vocab == <<"cat", "dog", "sun", "fig">>

Notes == [name |-> "notes.txt",
          pages |-> << <<"cat", "sun", "dog", "fig", "cat", "cat",
                         "sun", "fig", "dog", "dog", "fig", "oak">> >>]
Paper == [name |-> "paper.pdf",
          pages |-> << <<"cat", "dog">>, <<>>, <<"sun">> >>]
Blank == [name |-> "blank.txt", pages |-> << <<>> >>]

Docs == {Notes, Paper, Blank}
PdfNames == {"paper.pdf"}   \* the names with name.endswith(".pdf")
Photo == [name |-> "photo.png", shows |-> <<"dog", "sun">>]
Images == {Photo}
Keys == {"", "key"}
Models == {"llama-3.1-8b-instant", "openai/gpt-oss-120b"}
Filters == {"all", "text", "image"}
Queries == {<<>>, <<"cat">>, <<"dog", "sun">>}

(* Python truthiness of a list or an upload *)
Truthy(v) == v # <<>>

----------------------------------------------------------------------------
(* The script namespace *)

Bound(n) == n \in DOMAIN ns
Bind(f, n, v) == [x \in (DOMAIN f) \cup {n} |-> IF x = n THEN v ELSE f[x]]
Fresh == [x \in {} |-> <<>>]

----------------------------------------------------------------------------
(* Collaborators *)

RECURSIVE JoinWith(_, _)
(* sep.join(parts) *)
JoinWith(sep, parts) ==
    IF parts = <<>> THEN <<>>
    ELSE IF Len(parts) = 1 THEN Head(parts)
    ELSE Head(parts) \o sep \o JoinWith(sep, Tail(parts))

(* lines 135-141: text of the upload *)
ExtractText(f) ==
    IF f.name \in PdfNames
    THEN JoinWith(<<"\n">>, SelectSeq(f.pages, Truthy))
    ELSE f.pages[1]

IsWord(w) == w \notin {"\n", "\n\n", " "}

RECURSIVE Windows(_, _)
Windows(ws, n) ==
    IF ws = <<>> THEN <<>>
    ELSE IF Len(ws) <= n THEN <<ws>>
    ELSE <<SubSeq(ws, 1, n)>> \o Windows(SubSeq(ws, n + 1, Len(ws)), n)

(* chunking.chunk_text: the words of the text in windows of ChunkSize *)
chunk_text(text) == Windows(SelectSeq(text, IsWord), ChunkSize)

(* vision.describe_image: a description, or the absence signal *)
describe_image(img, key) == {img.shows, Absent}

RECURSIVE Count(_, _)
Count(w, text) ==
    IF text = <<>> THEN 0
    ELSE (IF Head(text) = w THEN 1 ELSE 0) + Count(w, Tail(text))

Embed(text) == [d \in 1..Len(Vocab) |-> Count(Vocab[d], text)]

(* embeddings.get_jina_embeddings: one vector per input, in input order *)
get_jina_embeddings(texts, key) == [i \in 1..Len(texts) |-> Embed(texts[i])]

RECURSIVE DotFrom(_, _, _)
DotFrom(u, v, d) ==
    IF d > Len(u) THEN 0 ELSE u[d] * v[d] + DotFrom(u, v, d + 1)

(* similarity metric of the index: dot product *)
Score(u, v) == DotFrom(u, v, 1)

(* retriever.FAISSRetriever(embeddings, metadata) *)
FAISSRetriever(embs, md) == [embeddings |-> embs, metadata |-> md]

Eligible(r, f) ==
    {i \in 1..Len(r.embeddings) : f = NoFilter \/ r.metadata[i].type = f}

Best(r, q, S) ==
    CHOOSE i \in S : \A j \in S :
        \/ Score(q, r.embeddings[i]) > Score(q, r.embeddings[j])
        \/ Score(q, r.embeddings[i]) = Score(q, r.embeddings[j]) /\ i <= j

RECURSIVE Ranked(_, _, _, _)
Ranked(r, q, S, k) ==
    IF S = {} \/ k = 0 THEN <<>>
    ELSE LET b == Best(r, q, S)
         IN  <<b>> \o Ranked(r, q, S \ {b}, k - 1)

(* retriever.search(query_emb, top_k, filter_type) *)
search(r, query_emb, top_k, f) == Ranked(r, query_emb[1], Eligible(r, f), top_k)

Overlap(q, doc) == Cardinality({i \in 1..Len(q) : Count(q[i], doc) > 0})

RECURSIVE InsertByScore(_, _, _)
InsertByScore(q, doc, sorted) ==
    IF sorted = <<>> THEN <<doc>>
    ELSE IF Overlap(q, doc) >= Overlap(q, Head(sorted))
         THEN <<doc>> \o sorted
         ELSE <<Head(sorted)>> \o InsertByScore(q, doc, Tail(sorted))

RECURSIVE RerankFrom(_, _, _)
RerankFrom(q, docs, i) ==
    IF i > Len(docs) THEN <<>>
    ELSE InsertByScore(q, docs[i], RerankFrom(q, docs, i + 1))

(* reranker.simple_rerank: stable, by descending term overlap with the query *)
simple_rerank(q, docs) == RerankFrom(q, docs, 1)

(* llm.ask_llm: the answer of the provider to this request *)
ask_llm(context, q, key, m) == <<"reply", "to">> \o q

----------------------------------------------------------------------------
(* The script, top to bottom *)

widgets == <<groq_key, jina_key, model, filter_type, txt_file, img_file, query>>

(* the run's corpus: what a query of this run searches *)
Corpus(f) == [x \in (DOMAIN f) \cap {"chunks", "metadata", "retriever"} |-> f[x]]

(* st.session_state.history *)
history == session_state.history

(* the history is reset without the test of line 88 *)
InitHistoryAlways(ss) == Bind(ss, "history", <<>>)

(* lines 88-89 *)
InitHistory(ss) ==
    IF "history" \notin DOMAIN ss THEN Bind(ss, "history", <<>>) ELSE ss

SessionState ==
    /\ pc = "session"
    /\ session_state' = InitHistory(session_state)
    /\ pc' = "guard"
    /\ UNCHANGED <<widgets, trigger, ns, prev>>

(* the embedding key is not tested *)
CanProcessNoJinaKey == Truthy(txt_file) /\ groq_key # ""

(* line 130 *)
CanProcess == Truthy(txt_file) /\ groq_key # "" /\ jina_key # ""

Guard ==
    /\ pc = "guard"
    /\ pc' = IF CanProcess THEN "extract" ELSE "idle"
    /\ UNCHANGED <<session_state, widgets, trigger, ns, prev>>

(* lines 135-141 *)
Extract ==
    /\ pc = "extract"
    /\ ns' = Bind(ns, "raw_text", ExtractText(txt_file))
    /\ pc' = "segment"
    /\ UNCHANGED <<session_state, widgets, trigger, prev>>

(* line 144 *)
TextTags(chs) == [i \in 1..Len(chs) |-> [type |-> "text"]]

(* lines 143-144 *)
Segment ==
    /\ pc = "segment"
    /\ LET chs == chunk_text(ns.raw_text)
       IN  ns' = Bind(Bind(ns, "chunks", chs), "metadata", TextTags(chs))
    /\ pc' = "vision"
    /\ UNCHANGED <<session_state, widgets, trigger, prev>>

(* the description is appended without the test of line 151 *)
WithImageChunkAlways(chs, v) == Append(chs, <<"Image", "description:">> \o v)

(* lines 151-152 *)
WithImageChunk(chs, v) ==
    IF Truthy(v) THEN Append(chs, <<"Image", "description:">> \o v) ELSE chs

(* the tag is not appended with the chunk *)
WithImageTagMissing(md, v) == md

(* lines 151, 153 *)
WithImageTag(md, v) ==
    IF Truthy(v) THEN Append(md, [type |-> "image"]) ELSE md

(* lines 147-153 *)
Vision ==
    /\ pc = "vision"
    /\ IF Truthy(img_file)
       THEN \E v \in describe_image(img_file, groq_key) :
              ns' = Bind(Bind(Bind(ns, "vision_text", v),
                              "chunks", WithImageChunk(ns.chunks, v)),
                         "metadata", WithImageTag(ns.metadata, v))
       ELSE ns' = ns
    /\ pc' = "embed"
    /\ UNCHANGED <<session_state, widgets, trigger, prev>>

(* the chunks are embedded as the segmenter returned them *)
EmbedInputEarly == chunk_text(ns.raw_text)

(* line 155: what is handed to the embedding client *)
EmbedInput == ns.chunks

(* line 155 *)
EmbedCorpus ==
    /\ pc = "embed"
    /\ ns' = Bind(ns, "embeddings", get_jina_embeddings(EmbedInput, jina_key))
    /\ pc' = "build"
    /\ UNCHANGED <<session_state, widgets, trigger, prev>>

(* line 156 *)
Build ==
    /\ pc = "build"
    /\ ns' = Bind(ns, "retriever", FAISSRetriever(ns.embeddings, ns.metadata))
    /\ pc' = "ui"
    /\ UNCHANGED <<session_state, widgets, trigger, prev>>

(* an exception in lines 135-156 ends the run before the query interface *)
IngestStages == {"extract", "segment", "embed", "build"}

IngestRaise ==
    /\ pc \in IngestStages
    /\ pc' = "failed"
    /\ UNCHANGED <<session_state, widgets, trigger, ns, prev>>

(* line 168: st.button is True in the run its click caused *)
run == trigger = "button"

(* lines 163-171 *)
QueryInterface ==
    /\ pc = "ui"
    /\ pc' = IF run /\ Truthy(query) THEN "qembed" ELSE "ready"
    /\ UNCHANGED <<session_state, widgets, trigger, ns, prev>>

(* line 175 *)
EmbedQuery ==
    /\ pc = "qembed"
    /\ ns' = Bind(ns, "query_emb", get_jina_embeddings(<<query>>, jina_key))
    /\ pc' = "search"
    /\ UNCHANGED <<session_state, widgets, trigger, prev>>

(* line 177 *)
FilterArg == IF filter_type = "all" THEN NoFilter ELSE filter_type

(* lines 177-178 *)
Search ==
    /\ pc = "search"
    /\ ns' = Bind(Bind(ns, "f", FilterArg),
                  "ids", search(ns.retriever, ns.query_emb, TopK, FilterArg))
    /\ pc' = "rerank"
    /\ UNCHANGED <<session_state, widgets, trigger, prev>>

(* line 180 *)
Retrieved(chs, ids) == [i \in 1..Len(ids) |-> chs[ids[i]]]

(* lines 180-181 *)
Rerank ==
    /\ pc = "rerank"
    /\ LET docs == Retrieved(ns.chunks, ns.ids)
       IN  ns' = Bind(Bind(ns, "retrieved_docs", docs),
                      "reranked", simple_rerank(query, docs))
    /\ pc' = "context"
    /\ UNCHANGED <<session_state, widgets, trigger, prev>>

(* the reranked chunks are joined without the slice *)
ContextUncapped(reranked) == JoinWith(<<"\n\n">>, reranked)

(* line 183: "\n\n".join(reranked[:3]) *)
Context(reranked) ==
    JoinWith(<<"\n\n">>, SubSeq(reranked, 1, Min(ContextCap, Len(reranked))))

(* line 183 *)
Assemble ==
    /\ pc = "context"
    /\ ns' = Bind(ns, "context", Context(ns.reranked))
    /\ pc' = "generate"
    /\ UNCHANGED <<session_state, widgets, trigger, prev>>

(* line 185 *)
Generate ==
    /\ pc = "generate"
    /\ ns' = Bind(ns, "answer", ask_llm(ns.context, query, groq_key, model))
    /\ pc' = "append"
    /\ UNCHANGED <<session_state, widgets, trigger, prev>>

(* line 189 *)
HistoryAppend(ss, q, a) == [ss EXCEPT !.history = Append(@, <<q, a>>)]

(* lines 187-189; the panels of lines 192-213 only display *)
Record ==
    /\ pc = "append"
    /\ session_state' = HistoryAppend(session_state, query, ns.answer)
    /\ pc' = "answered"
    /\ UNCHANGED <<widgets, trigger, ns, prev>>

(* an exception in lines 175-185 ends the run before line 189 *)
QueryStages == {"qembed", "search", "rerank", "context", "generate"}

QueryRaise ==
    /\ pc \in QueryStages
    /\ pc' = "qerror"
    /\ UNCHANGED <<session_state, widgets, trigger, ns, prev>>

----------------------------------------------------------------------------
(* User events: each one reruns the script *)

(* the run is over: the script reached its end or raised *)
EndStates == {"idle", "failed", "ready", "answered", "qerror"}

(* the runs that rendered the query box and the button (lines 163-168) *)
AskStates == {"ready", "answered", "qerror"}

(* a rerun starts from line 1 with a fresh namespace *)
Rerun(trig) ==
    /\ pc \in EndStates
    /\ prev' = [turn_failed |-> pc = "qerror", corpus |-> Corpus(ns)]
    /\ ns' = Fresh
    /\ pc' = "session"
    /\ trigger' = trig
    /\ UNCHANGED session_state

UploadDoc ==
    /\ \E d \in Docs \cup {None} : d # txt_file /\ txt_file' = d
    /\ Rerun("upload")
    /\ UNCHANGED <<groq_key, jina_key, model, filter_type, img_file, query>>

UploadImage ==
    /\ \E i \in Images \cup {None} : i # img_file /\ img_file' = i
    /\ Rerun("upload")
    /\ UNCHANGED <<groq_key, jina_key, model, filter_type, txt_file, query>>

SetGroqKey ==
    /\ \E k \in Keys : k # groq_key /\ groq_key' = k
    /\ Rerun("widget")
    /\ UNCHANGED <<jina_key, model, filter_type, txt_file, img_file, query>>

SetJinaKey ==
    /\ \E k \in Keys : k # jina_key /\ jina_key' = k
    /\ Rerun("widget")
    /\ UNCHANGED <<groq_key, model, filter_type, txt_file, img_file, query>>

SelectModel ==
    /\ \E m \in Models : m # model /\ model' = m
    /\ Rerun("widget")
    /\ UNCHANGED <<groq_key, jina_key, filter_type, txt_file, img_file, query>>

SetFilter ==
    /\ \E f \in Filters : f # filter_type /\ filter_type' = f
    /\ Rerun("widget")
    /\ UNCHANGED <<groq_key, jina_key, model, txt_file, img_file, query>>

EditQuery ==
    /\ pc \in AskStates
    /\ \E q \in Queries : q # query /\ query' = q
    /\ Rerun("widget")
    /\ UNCHANGED <<groq_key, jina_key, model, filter_type, txt_file, img_file>>

ClickRun ==
    /\ pc \in AskStates
    /\ Len(history) < MaxHist
    /\ Rerun("button")
    /\ UNCHANGED widgets

----------------------------------------------------------------------------

Init ==
    /\ session_state = Fresh
    /\ groq_key = ""
    /\ jina_key = ""
    /\ model = "llama-3.1-8b-instant"
    /\ filter_type = "all"
    /\ txt_file = None
    /\ img_file = None
    /\ query = <<>>
    /\ trigger = "load"
    /\ ns = Fresh
    /\ pc = "session"
    /\ prev = [turn_failed |-> FALSE, corpus |-> Fresh]

Next ==
    \/ SessionState
    \/ Guard
    \/ Extract
    \/ Segment
    \/ Vision
    \/ EmbedCorpus
    \/ Build
    \/ IngestRaise
    \/ QueryInterface
    \/ EmbedQuery
    \/ Search
    \/ Rerank
    \/ Assemble
    \/ Generate
    \/ Record
    \/ QueryRaise
    \/ UploadDoc
    \/ UploadImage
    \/ SetGroqKey
    \/ SetJinaKey
    \/ SelectModel
    \/ SetFilter
    \/ EditQuery
    \/ ClickRun

Spec == Init /\ [][Next]_vars

----------------------------------------------------------------------------
(* Properties *)

ImagePrefix == <<"Image", "description:">>
Segments == chunk_text(ns.raw_text)
Described == Bound("vision_text") /\ Truthy(ns.vision_text)
Answering == QueryStages \cup {"append"}

(* C4: wherever the corpus exists, chunks and metadata have the same      *)
(* length and position i of both is the same chunk: the segmenter's chunks *)
(* come first, in order, tagged text; the image description, when there is *)
(* one, is the single last chunk and the only one tagged image; the index  *)
(* holds one vector and one tag per chunk.                                 *)
C4_Aligned ==
    Bound("chunks") =>
        /\ Bound("metadata")
        /\ Len(ns.chunks) = Len(ns.metadata)
        /\ \A i \in 1..Len(Segments) :
              i <= Len(ns.chunks) /\ ns.chunks[i] = Segments[i]
                                  /\ ns.metadata[i].type = "text"
        /\ Len(ns.chunks) <= Len(Segments) + 1
        /\ Len(ns.chunks) = Len(Segments) + 1 =>
              /\ Described
              /\ ns.chunks[Len(ns.chunks)] = ImagePrefix \o ns.vision_text
              /\ ns.metadata[Len(ns.chunks)].type = "image"
        /\ Bound("embeddings") => Len(ns.embeddings) = Len(ns.metadata)
        /\ Bound("retriever") =>
              /\ Len(ns.retriever.embeddings) = Len(ns.chunks)
              /\ Len(ns.retriever.metadata) = Len(ns.chunks)
        /\ Bound("ids") => \A k \in 1..Len(ns.ids) : ns.ids[k] \in 1..Len(ns.chunks)

C4_Witness ==
    /\ pc = "rerank"
    /\ Len(ns.chunks) = Len(Segments) + 1
    /\ Len(Segments) >= 2
    /\ ns.metadata[Len(ns.chunks)].type = "image"

VisionFailed ==
    Truthy(img_file) /\ Bound("vision_text") /\ ns.vision_text = Absent

C3_TextOnly ==
    VisionFailed =>
        /\ pc # "vision"
        /\ ns.chunks = Segments
        /\ Len(ns.metadata) = Len(Segments)
        /\ \A i \in 1..Len(ns.metadata) : ns.metadata[i].type = "text"
        /\ Bound("retriever") =>
              \A i \in 1..Len(ns.retriever.metadata) :
                  ns.retriever.metadata[i].type = "text"
        /\ Bound("ids") /\ filter_type = "image" => ns.ids = <<>>

C3_VisionStep ==
    (pc = "vision" /\ Truthy(img_file)) =>
        /\ pc' = "embed"
        /\ "vision_text" \in DOMAIN ns'
        /\ ns'.vision_text = Absent =>
              ns'.chunks = ns.chunks /\ ns'.metadata = ns.metadata

(* C3: when an image is submitted and the vision step yields no           *)
(* description, the step does not end the run: ingestion goes on to the    *)
(* embedding with the segmenter's chunks only, all tagged text, no image   *)
(* chunk, and the corpus stays so through the index and the query.         *)
C3_Degrades == [](C3_TextOnly) /\ [][C3_VisionStep]_vars

C3_Witness ==
    /\ VisionFailed
    /\ pc = "answered"
    /\ Len(ns.chunks) >= 2
    /\ ns.ids # <<>>
    /\ history # <<>>

C5_HistoryStep ==
    IF "history" \notin DOMAIN session_state
    THEN "history" \in DOMAIN session_state' => session_state'.history = <<>>
    ELSE /\ "history" \in DOMAIN session_state'
         /\ IF pc = "append" /\ pc' = "answered"
            THEN /\ Len(history') = Len(history) + 1
                 /\ SubSeq(history', 1, Len(history)) = history
                 /\ history'[Len(history')] = <<query, ns.answer>>
            ELSE history' = history

(* C5: the history is append-only over every sequence of events: a        *)
(* successful query turn adds exactly the pair (query, answer) at the end, *)
(* and no other step removes, reorders or alters an entry.                 *)
C5_AppendOnly == [][C5_HistoryStep]_vars

C5_Witness ==
    /\ pc = "answered"
    /\ Len(history) = 2
    /\ history[1][1] # history[2][1]

(* C6: within one run no embedding exists before the chunk list is        *)
(* complete (segmentation and the image step done), the vectors are those  *)
(* of the complete chunk list, the index is built only from these vectors  *)
(* and their tags, and a search only runs against that index.              *)
C6_Ordered ==
    /\ pc \in {"session", "guard", "extract", "segment", "vision", "embed"} =>
          ~Bound("embeddings") /\ ~Bound("retriever")
    /\ pc = "build" => Bound("embeddings") /\ ~Bound("retriever")
    /\ Bound("embeddings") =>
          /\ Len(ns.embeddings) = Len(ns.chunks)
          /\ \A i \in 1..Len(ns.chunks) : ns.embeddings[i] = Embed(ns.chunks[i])
    /\ Bound("retriever") =>
          /\ Bound("embeddings")
          /\ ns.retriever.embeddings = ns.embeddings
          /\ ns.retriever.metadata = ns.metadata
    /\ (pc \in Answering \/ Bound("ids")) => Bound("retriever")

C6_Witness ==
    /\ pc = "rerank"
    /\ Described
    /\ Len(ns.ids) = TopK
    /\ ns.retriever.metadata[Len(ns.chunks)].type = "image"

Sep == <<"\n\n">>

(* C9: the context is made of exactly the first min(3, n) chunks of the   *)
(* reranked sequence, in reranked order, n being the number of retrieved   *)
(* candidates, itself at most 5.                                           *)
C9_ContextIsTop3 ==
    Bound("context") =>
        LET n == Len(ns.ids)
            r == ns.reranked
        IN  /\ n <= 5
            /\ Len(r) = n
            /\ n = 0 => ns.context = <<>>
            /\ n = 1 => ns.context = r[1]
            /\ n = 2 => ns.context = r[1] \o Sep \o r[2]
            /\ n >= 3 => ns.context = r[1] \o Sep \o r[2] \o Sep \o r[3]

C9_Witness ==
    /\ Bound("context")
    /\ Len(ns.ids) = 5
    /\ Len(ns.reranked) = 5
    /\ ns.reranked # ns.retrieved_docs

C10_FromReady ==
    /\ (pc \in Answering \cup {"answered", "qerror"}
          \/ Bound("query_emb") \/ Bound("ids") \/ Bound("answer")) =>
          /\ Truthy(txt_file) /\ groq_key # "" /\ jina_key # ""
          /\ run /\ Truthy(query)
          /\ Bound("retriever")
          /\ Len(ns.retriever.embeddings) = Len(ns.chunks)
          /\ ns.chunks = WithImageChunk(chunk_text(ExtractText(txt_file)),
                                        IF Described THEN ns.vision_text ELSE Absent)
    /\ pc = "idle" => ns = Fresh

C10_Step ==
    /\ session_state' # session_state /\ pc # "session" =>
          pc = "append" /\ Bound("retriever") /\ Bound("answer")
    /\ pc \in {"idle", "failed"} => trigger' # "button" /\ query' = query

(* C10: a query is processed only from Ready: the query embedding, the    *)
(* search, the generation and the history append happen only in a run that *)
(* has a document and both credentials and has completed the ingestion;    *)
(* in Idle nothing is computed and no query can be submitted.              *)
C10_OnlyFromReady == [](C10_FromReady) /\ [][C10_Step]_vars

C10_Witness ==
    /\ pc = "answered"
    /\ Bound("answer")
    /\ history # <<>>
    /\ history[Len(history)] = <<query, ns.answer>>

(* C1: a query turn that fails leaves the session unchanged: the step     *)
(* that fails appends nothing to the history, and the query that follows   *)
(* a failed turn (no new document in between) runs on the corpus and index *)
(* that were queryable before the failed turn.                             *)
C1_FailedTurnKeepsSession ==
    /\ [](prev.turn_failed /\ trigger = "button" /\ pc \in Answering =>
             Corpus(ns) = prev.corpus)
    /\ [][pc' = "qerror" => session_state' = session_state /\ ns' = ns]_vars

(* C2: a run whose ingestion fails never reaches the query interface and  *)
(* leaves the session as it was: the corpus and index built by the run     *)
(* before it are still there to be queried.                                *)
C2_FailedIngestKeepsSession ==
    pc = "failed" =>
        /\ ~Bound("ids")
        /\ "retriever" \in DOMAIN prev.corpus => Corpus(ns) = prev.corpus

(* C7: the index is built once per ingested document: a run started by    *)
(* anything but the submission of a document or image, on a document the   *)
(* run before it had already indexed, neither embeds the corpus nor builds *)
(* the index again.                                                        *)
C7_BuiltOncePerDocument ==
    ("retriever" \in DOMAIN prev.corpus /\ trigger # "upload") =>
        ~Bound("embeddings") /\ ~Bound("retriever")

(* C8: when the search yields no candidate the turn does not go on to the *)
(* answer generator with an empty context nor records a normal answer.     *)
C8_EmptyResultSignalled ==
    (Bound("ids") /\ ns.ids = <<>>) =>
        /\ ~Bound("answer")
        /\ pc \notin {"generate", "append", "answered"}

====
